---- MODULE Spec2Model ----
(***************************************************************************)
(* Model of the Easun inverter poll driver (DataCollector in               *)
(* custom_components/easun_inverter/sensor.py) driving either the textual  *)
(* client (AsyncAsciiISolar in easunpy/async_ascii_isolar.py) or a client  *)
(* whose get_all_data() result is an input of the collector.               *)
(*                                                                         *)
(* Spec        the collector with its client                               *)
(* ClientSpec  overlapping _send_command() calls on a fresh textual client *)
(* WrapSpec    the same calls on a client whose transaction id is about to *)
(*             wrap                                                        *)
(* HostSpec    the negotiations of several textual clients on one host     *)
(* FrameSpec   _build_packet(), the checksum escape and the reading of the *)
(*             frame header                                                *)
(* ParseSpec   the reply parsers and the derived battery power             *)
(* SetupSpec   async_setup_entry(): the choice of the client by the model  *)
(* LiveSpec    the refreshes of the collector under a fair event loop      *)
(***************************************************************************)
EXTENDS Integers, Sequences, FiniteSets, TLC

\* ---------------------------------------------------------------- bounds
NumCallers == 2     \* concurrent invocations of update_data()
MaxCalls   == 4     \* update_data() invocations in one behaviour
MaxFetches == 3     \* _do_update() tasks created in one behaviour
MaxSensors == 1     \* sensors registered with the collector
MaxSends   == 2     \* direct _send_command() calls in one behaviour
NumClients == 2     \* client instances (one per device) on one host
MaxPolls   == 3     \* polls of the client instances in one behaviour
MaxBits    == 33    \* characters of the longest warnings reply
MaxOnes    == 2     \* '1' characters in one warnings reply

\* ------------------------------------------------------------- constants
None == 0            \* Python None (fetch ordinals, connections, callers, times are >= 1)
NoError == "none"

Callers == 1..NumCallers

\* client instances on one host; instance i is constructed for device i
Clients == 1..NumClients

\* keys of DataCollector._data
DataTypes == {"battery", "pv", "grid", "output", "system"}

\* AsyncAsciiISolar.commands
commands == <<"QPIGS", "QPIRI", "QMOD", "QPIWS", "QPIGS2">>

\* the two clients async_setup_entry can hand to DataCollector
ClientKinds == {"ascii", "register"}

\* fields of the SystemStatus dataclass
SystemStatusFields == {"operating_mode", "mode_name", "inverter_time"}

\* keyword arguments get_all_data() passes to SystemStatus(...)
SystemStatusKwargs ==
    {"operating_mode", "mode_name", "inverter_time", "inverter_info", "warnings"}

\* a dataclass constructor accepts exactly the keywords that are its fields
DataclassAccepts(fields, kwargs) == kwargs \subseteq fields

\* which sub-records are objects in the tuples get_all_data() is taken to
\* return: none, one, all but one, all
PresentChoices == {{}, {"battery"}, DataTypes \ {"system"}, DataTypes}

\* positions of a _do_update() task
AsciiPcs == {"ensure", "listen", "waitconn", "read", "sleep",
             "close_writer", "close_server", "build"}
RunningPcs == AsciiPcs \cup {"reg_await"}
TaskPcs == RunningPcs \cup {"none", "done_ok", "done_err", "cancelled"}

Errors == {"RuntimeError", "TimeoutError", "OSError", "ConnectionResetError",
           "TypeError", "ClientError"}

VARIABLES
    clientKind,              \* which client the collector was constructed with
    data,                    \* DataCollector._data
    lock,                    \* DataCollector._lock is locked
    consecutive_failures,    \* DataCollector._consecutive_failures
    last_successful_update,  \* DataCollector._last_successful_update
    sensors,                 \* DataCollector._sensors
    sensorState,             \* per sensor: notifications and what it read
    pc,                      \* per update_data() invocation: "idle" | "waiting"
    result,                  \* how the caller's last update_data() ended
    tpc,                     \* position of the _do_update() task of a caller
    cmdIdx,                  \* get_all_data(): index into commands
    fid,                     \* ordinal of the fetch a task performs
    ret,                     \* tuple get_all_data() returned to the task, if any
    err,                     \* exception a task ended with
    attempt,                 \* what the get_all_data() call of a task has done
    reader,                  \* AsyncAsciiISolar._reader (None or connection)
    writerOpen,              \* transport of AsyncAsciiISolar._writer is open
    server,                  \* AsyncAsciiISolar._server (None or a listener)
    clientLock,              \* holder of AsyncAsciiISolar._lock, or None
    trans_id,                \* AsyncAsciiISolar._trans_id
    usedIds,                 \* transaction ids of the frames built so far
    listening,               \* a listener of this client is bound to the port
    pendingConnect,          \* connect-back datagrams the device has not served
    connCount,               \* inbound connections accepted so far
    sent,                    \* request frames the device has not answered
    inbuf,                   \* reply frames not yet read from the session
    datagrams,               \* connect-back datagrams sent so far
    started,                 \* listeners started so far
    rejected,                \* inbound connections _handle_client closed
    calls,                   \* update_data() invocations so far (the clock)
    fetchCount,              \* _do_update() tasks (or direct client calls) so far
    okCount,                 \* refreshes that ended without an exception
    lastEnd,                 \* how the latest lock-holding refresh ended
    startData,               \* _data when the caller acquired the lock
    startLast,               \* _last_successful_update at that moment
    afterTimeout,            \* the refresh before this one timed out
    nego,                    \* per client instance: position of its poll
    readers,                 \* per client instance: _reader (None or a device)
    listeners,               \* instances whose listener is bound to the port
    connecting,              \* devices that got a datagram and will connect
    closedBy,                \* per instance: devices whose connection it closed
    polls,                   \* polls started by the instances so far
    command,                 \* _build_packet(): the command argument
    trans_id_arg,            \* _build_packet(): the trans_id argument
    packet,                  \* the frame _build_packet() returned, as bytes
    length,                  \* the length read from the frame's header
    byte,                    \* _adjust_crc_byte(): the byte argument
    adjusted,                \* what _adjust_crc_byte() returned, as bytes
    raw_cmd,                 \* the command whose reply is parsed
    raw,                     \* raw[cmd].strip("()"): its fields or characters
    parsed,                  \* what the command's parser returned or raised
    battery,                 \* the BatteryData built from the QPIGS record
    model,                   \* async_setup_entry(): config_entry.data["model"]
    inverter_ip,             \* async_setup_entry(): an inverter_ip is configured
    local_ip,                \* async_setup_entry(): a local_ip is configured
    client,                  \* async_setup_entry(): the client it constructed
    entities,                \* async_setup_entry(): the entities list
    spc                      \* async_setup_entry(): its position

collectorVars == <<data, lock, consecutive_failures, last_successful_update>>
sensorVars    == <<sensors, sensorState>>
callerVars    == <<pc, result>>
taskVars      == <<tpc, cmdIdx, fid, ret, err, attempt>>
clientVars    == <<reader, writerOpen, server, clientLock, trans_id,
                   usedIds>>
netVars       == <<listening, pendingConnect, connCount, sent, inbuf,
                   datagrams, started, rejected>>
histVars      == <<calls, fetchCount, okCount, lastEnd,
                   startData, startLast, afterTimeout>>

portVars      == <<nego, readers, listeners, connecting, closedBy, polls>>

frameVars     == <<command, trans_id_arg, packet, length, byte, adjusted>>

parseVars     == <<raw_cmd, raw, parsed, battery>>

setupVars     == <<model, inverter_ip, local_ip, client, entities, spc>>

\* the variables of the client instances on one host, of the frame codec,
\* of the reply parsers and of the set-up of a config entry
sideVars == <<portVars, frameVars, parseVars, setupVars>>

\* what the steps of the instances on one host leave alone
notPortVars == <<frameVars, parseVars, setupVars>>

\* what the steps of the frame codec leave alone
notFrameVars == <<portVars, parseVars, setupVars>>

\* what the steps of the reply parsers leave alone
notParseVars == <<portVars, frameVars, setupVars>>

\* what the steps of the set-up leave alone
notSetupVars == <<portVars, frameVars, parseVars>>

\* the variables of the collector and its client
mainVars == <<clientKind, collectorVars, sensorVars, callerVars, taskVars,
              clientVars, netVars, histVars>>

vars == <<mainVars, sideVars>>

\* DataCollector._data = {} after construction
EmptyData == [k \in {} |-> None]

\* the tuple (None, None, None, None, None)
NoTuple == [k \in DataTypes |-> None]

\* a get_all_data() call that has done nothing yet: the command frames it
\* wrote and their transaction ids, the replies it read (how many, and which
\* frames), the negotiations it entered and the inter-command delays it sat
\* through
NoAttempt == [cmds |-> <<>>, tids |-> <<>>, replies |-> 0, got |-> <<>>,
              negs |-> 0, delays |-> 0]

\* DataCollector.get_data
get_data(d, data_type) ==
    IF data_type \in DOMAIN d THEN d[data_type] ELSE None

\* the collector and its client after construction
InitMain ==
    /\ clientKind \in ClientKinds
    /\ data = EmptyData
    /\ lock = FALSE
    /\ consecutive_failures = 0
    /\ last_successful_update = None
    /\ sensors = <<>>
    /\ sensorState = <<>>
    /\ pc = [c \in Callers |-> "idle"]
    /\ result = [c \in Callers |-> "none"]
    /\ tpc = [c \in Callers |-> "none"]
    /\ cmdIdx = [c \in Callers |-> 0]
    /\ fid = [c \in Callers |-> 0]
    /\ ret = [c \in Callers |-> EmptyData]
    /\ err = [c \in Callers |-> NoError]
    /\ attempt = [c \in Callers |-> NoAttempt]
    /\ reader = None
    /\ writerOpen = FALSE
    /\ server = None
    /\ clientLock = None
    /\ trans_id = 0
    /\ usedIds = <<>>
    /\ listening = FALSE
    /\ pendingConnect = 0
    /\ connCount = 0
    /\ sent = <<>>
    /\ inbuf = <<>>
    /\ datagrams = 0
    /\ started = 0
    /\ rejected = {}
    /\ calls = 0
    /\ fetchCount = 0
    /\ okCount = 0
    /\ lastEnd = "none"
    /\ startData = [c \in Callers |-> EmptyData]
    /\ startLast = [c \in Callers |-> None]
    /\ afterTimeout = [c \in Callers |-> FALSE]

\* the client instances on one host after construction
InitHost ==
    /\ nego = [i \in Clients |-> "idle"]
    /\ readers = [i \in Clients |-> None]
    /\ listeners = {}
    /\ connecting = {}
    /\ closedBy = [i \in Clients |-> {}]
    /\ polls = 0

\* no frame has been built
InitFrame ==
    /\ command = commands[1]
    /\ trans_id_arg = 0
    /\ packet = <<>>
    /\ length = None
    /\ byte = 0
    /\ adjusted = <<>>

\* no reply has been parsed
InitParse ==
    /\ raw_cmd = commands[1]
    /\ raw = <<>>
    /\ parsed = <<>>
    /\ battery = <<>>

\* the keys of MODEL_CONFIGS
MODEL_CONFIGS == {"ISOLAR_SMG_II_11K", "ISOLAR_SMG_II_8K"}

\* the keys of ASCII_MODEL_CONFIGS
ASCII_MODEL_CONFIGS == {"EASUN_SMW_8K", "EASUN_SMW_11K"}

\* key.endswith("SMW_8K") or key.endswith("SMW_11K"), on the model
\* identifiers of the two tables
EndsWithSmw(key) == key \in {"EASUN_SMW_8K", "EASUN_SMW_11K"}

\* sensor.py: ASCII_MODELS = {key for key in MODEL_CONFIGS if ...}
ASCII_MODELS == {key \in MODEL_CONFIGS : EndsWithSmw(key)}

\* config_flow.py: MODEL_KEYS = list(MODEL_CONFIGS.keys()), the choices of
\* vol.In(MODEL_KEYS)
MODEL_KEYS == MODEL_CONFIGS

\* async_setup_entry() has not run: the entry of the default model
InitSetup ==
    /\ model = "ISOLAR_SMG_II_11K"
    /\ inverter_ip = TRUE
    /\ local_ip = TRUE
    /\ client = "none"
    /\ entities = <<>>
    /\ spc = "start"

Init == InitMain /\ InitHost /\ InitFrame /\ InitParse /\ InitSetup

\* ------------------------------------------------------ DataCollector
\* _update(now): the timer starts a new invocation of update_data();
\* invocations are interchangeable, the next one takes the lowest free slot
NextCaller(c) ==
    /\ pc[c] = "idle"
    /\ \A d \in Callers : d < c => pc[d] # "idle"

\* variant: the lock is taken without looking at its state
LockFree_NoCheck == TRUE

\* update_data(): "if not self._lock.locked()"
LockFree == ~lock

\* variant: the check for an empty result is missing
AllNone_Never(t) == FALSE

\* _do_update(): all(x is None for x in (battery, pv, grid, output, status))
AllNone(t) == \A k \in DataTypes : t[k] = None

\* what a sensor reads through get_data() in update_from_collector()
View(d) == [k \in DataTypes |-> get_data(d, k)]

\* variant: the notification loop is missing
NotifySensors_Nobody(ss, d) == ss

\* update_data(): "for sensor in self._sensors: sensor.update_from_collector()"
NotifySensors(ss, d) ==
    [s \in DOMAIN ss |-> [ss[s] EXCEPT !.count = @ + 1, !.seen = View(d)]]

\* register_sensor(), called once by the constructor of each sensor;
\* async_setup_entry builds the sensors before it schedules the updates
RegisterSensor ==
    /\ Len(sensors) < MaxSensors
    /\ calls = 0
    /\ sensors' = Append(sensors, Len(sensors) + 1)
    /\ sensorState' = Append(sensorState,
                             [count |-> 0, seen |-> NoTuple])
    /\ UNCHANGED <<clientKind, sideVars, collectorVars, callerVars, taskVars, clientVars,
                   netVars, histVars>>

\* variant: a call that finds the lock held waits for it
UpdateData_Skip_Queued(c) ==
    /\ NextCaller(c)
    /\ calls < MaxCalls
    /\ ~LockFree
    /\ pc' = [pc EXCEPT ![c] = "waiting"]
    /\ calls' = calls + 1
    /\ UNCHANGED <<clientKind, sideVars, collectorVars, sensorVars, result, taskVars,
                   clientVars, netVars, fetchCount, okCount,
                   lastEnd, startData, startLast, afterTimeout>>

\* variant: the skipped call leaves through the finally clause as well
UpdateData_Skip_Release(c) ==
    /\ NextCaller(c)
    /\ calls < MaxCalls
    /\ ~LockFree
    /\ result' = [result EXCEPT ![c] = "skipped"]
    /\ calls' = calls + 1
    /\ lock' = FALSE
    /\ UNCHANGED <<clientKind, sideVars, data, consecutive_failures,
                   last_successful_update, sensorVars, pc, taskVars,
                   clientVars, netVars, fetchCount, okCount,
                   lastEnd, startData, startLast, afterTimeout>>

\* update_data() while the lock is held: log and return
UpdateData_Skip(c) ==
    /\ NextCaller(c)
    /\ calls < MaxCalls
    /\ ~LockFree
    /\ result' = [result EXCEPT ![c] = "skipped"]
    /\ calls' = calls + 1
    /\ UNCHANGED <<clientKind, sideVars, collectorVars, sensorVars, pc, taskVars,
                   clientVars, netVars, fetchCount, okCount,
                   lastEnd, startData, startLast, afterTimeout>>

\* update_data() with the lock free: acquire, create the _do_update() task and
\* wait for it under the timeout
UpdateData_Acquire(c) ==
    /\ NextCaller(c)
    /\ calls < MaxCalls
    /\ fetchCount < MaxFetches
    /\ LockFree
    /\ lock' = TRUE
    /\ pc' = [pc EXCEPT ![c] = "waiting"]
    /\ result' = [result EXCEPT ![c] = "none"]
    /\ tpc' = [tpc EXCEPT ![c] = IF clientKind = "ascii" THEN "ensure"
                                                         ELSE "reg_await"]
    /\ cmdIdx' = [cmdIdx EXCEPT ![c] = 1]
    /\ fid' = [fid EXCEPT ![c] = fetchCount + 1]
    /\ ret' = [ret EXCEPT ![c] = EmptyData]
    /\ err' = [err EXCEPT ![c] = NoError]
    /\ attempt' = [attempt EXCEPT ![c] = NoAttempt]
    /\ calls' = calls + 1
    /\ fetchCount' = fetchCount + 1
    /\ startData' = [startData EXCEPT ![c] = data]
    /\ startLast' = [startLast EXCEPT ![c] = last_successful_update]
    /\ afterTimeout' = [afterTimeout EXCEPT ![c] = (lastEnd = "timeout")]
    /\ UNCHANGED <<clientKind, sideVars, data, consecutive_failures,
                   last_successful_update, sensorVars, clientVars, netVars, okCount, lastEnd>>

\* the task raised: it is done with exception e
TaskRaises(c, e) ==
    /\ tpc' = [tpc EXCEPT ![c] = "done_err"]
    /\ err' = [err EXCEPT ![c] = e]
    /\ UNCHANGED <<cmdIdx, fid, ret, attempt>>

\* variant: the snapshot is stored before the result is checked
DoUpdate_PublishFirst(c, t) ==
    /\ data' = t
    /\ ret' = [ret EXCEPT ![c] = t]
    /\ UNCHANGED <<cmdIdx, fid, attempt>>
    /\ IF \A k \in DataTypes : t[k] = None
       THEN /\ tpc' = [tpc EXCEPT ![c] = "done_err"]
            /\ err' = [err EXCEPT ![c] = "RuntimeError"]
            /\ UNCHANGED <<consecutive_failures, last_successful_update>>
       ELSE /\ consecutive_failures' = 0
            /\ last_successful_update' = calls
            /\ tpc' = [tpc EXCEPT ![c] = "done_ok"]
            /\ UNCHANGED err

\* variant: a successful fetch does not store its snapshot
DoUpdate_KeepOld(c, t) ==
    /\ ret' = [ret EXCEPT ![c] = t]
    /\ UNCHANGED <<cmdIdx, fid, attempt, data>>
    /\ IF \A k \in DataTypes : t[k] = None
       THEN /\ tpc' = [tpc EXCEPT ![c] = "done_err"]
            /\ err' = [err EXCEPT ![c] = "RuntimeError"]
            /\ UNCHANGED <<consecutive_failures, last_successful_update>>
       ELSE /\ consecutive_failures' = 0
            /\ last_successful_update' = calls
            /\ tpc' = [tpc EXCEPT ![c] = "done_ok"]
            /\ UNCHANGED err

\* _do_update() once get_all_data() has returned the tuple t
DoUpdate(c, t) ==
    IF AllNone(t)
    THEN /\ tpc' = [tpc EXCEPT ![c] = "done_err"]
         /\ err' = [err EXCEPT ![c] = "RuntimeError"]
         /\ ret' = [ret EXCEPT ![c] = t]
         /\ UNCHANGED <<cmdIdx, fid, attempt>>
         /\ UNCHANGED <<data, consecutive_failures, last_successful_update>>
    ELSE /\ data' = t
         /\ consecutive_failures' = 0
         /\ last_successful_update' = calls
         /\ tpc' = [tpc EXCEPT ![c] = "done_ok"]
         /\ ret' = [ret EXCEPT ![c] = t]
         /\ UNCHANGED <<cmdIdx, fid, err, attempt>>

\* the finally clause of update_data(): release the lock; the call and its
\* task are over
Finally(c) ==
    /\ lock' = FALSE
    /\ pc' = [pc EXCEPT ![c] = "idle"]
    /\ tpc' = [tpc EXCEPT ![c] = "none"]
    /\ cmdIdx' = [cmdIdx EXCEPT ![c] = 0]
    /\ fid' = [fid EXCEPT ![c] = 0]
    /\ ret' = [ret EXCEPT ![c] = EmptyData]
    /\ err' = [err EXCEPT ![c] = NoError]
    /\ attempt' = [attempt EXCEPT ![c] = NoAttempt]
    /\ startData' = [startData EXCEPT ![c] = EmptyData]
    /\ startLast' = [startLast EXCEPT ![c] = None]
    /\ afterTimeout' = [afterTimeout EXCEPT ![c] = FALSE]

\* update_data() resumes after the task returned: notify every sensor
UpdateData_Notify(c) ==
    /\ pc[c] = "waiting"
    /\ tpc[c] = "done_ok"
    /\ sensorState' = NotifySensors(sensorState, data)
    /\ result' = [result EXCEPT ![c] = "ok"]
    /\ Finally(c)
    /\ okCount' = okCount + 1
    /\ lastEnd' = "ok"
    /\ UNCHANGED <<clientKind, sideVars, data, consecutive_failures,
                   last_successful_update, sensors, clientVars, netVars,
                   calls, fetchCount>>

\* update_data() resumes after the task raised: the exception leaves
\* update_data() (a TimeoutError of the task through the except clause)
UpdateData_Raise(c) ==
    /\ pc[c] = "waiting"
    /\ tpc[c] = "done_err"
    /\ result' = [result EXCEPT ![c] = err[c]]
    /\ Finally(c)
    /\ lastEnd' = "error"
    /\ UNCHANGED <<clientKind, sideVars, data, consecutive_failures,
                   last_successful_update, sensorVars, clientVars, netVars,
                   calls, fetchCount, okCount>>

\* variant: the wait has no timeout
WaitForTimeout_Never(c) == FALSE /\ UNCHANGED vars

\* wait_for(task, timeout) expires while the task is suspended: the task is
\* cancelled where it waits (an "async with" it is in releases its lock)
WaitForTimeout(c) ==
    /\ pc[c] = "waiting"
    /\ tpc[c] \in RunningPcs
    /\ tpc' = [tpc EXCEPT ![c] = "cancelled"]
    /\ clientLock' = IF clientLock = c THEN None ELSE clientLock
    /\ UNCHANGED <<clientKind, sideVars, collectorVars, sensorVars, callerVars, cmdIdx,
                   fid, ret, err, attempt, reader, writerOpen, server,
                   trans_id, usedIds, netVars, histVars>>

\* update_data() resumes with TimeoutError: log, task.cancel(), raise
UpdateData_TimedOut(c) ==
    /\ pc[c] = "waiting"
    /\ tpc[c] = "cancelled"
    /\ result' = [result EXCEPT ![c] = "TimeoutError"]
    /\ Finally(c)
    /\ lastEnd' = "timeout"
    /\ UNCHANGED <<clientKind, sideVars, data, consecutive_failures,
                   last_successful_update, sensorVars, clientVars, netVars,
                   calls, fetchCount, okCount>>

\* ------------------------------------- client given to the collector
\* variant: a fetch that was cancelled goes on and returns its tuple
Client_Return_AfterCancel(c, present) ==
    /\ tpc[c] \in {"reg_await", "cancelled"}
    /\ DoUpdate(c, [k \in DataTypes |-> IF k \in present THEN fid[c] ELSE None])
    /\ UNCHANGED <<clientKind, sideVars, lock, sensorVars, callerVars, clientVars,
                   netVars, histVars>>

\* self._isolar.get_all_data() returns a tuple; the sub-records in present are
\* objects, the others are None
Client_Return(c, present) ==
    /\ tpc[c] = "reg_await"
    /\ DoUpdate(c, [k \in DataTypes |-> IF k \in present THEN fid[c] ELSE None])
    /\ UNCHANGED <<clientKind, sideVars, lock, sensorVars, callerVars, clientVars,
                   netVars, histVars>>

\* self._isolar.get_all_data() raises
Client_Raise(c) ==
    /\ tpc[c] = "reg_await"
    /\ TaskRaises(c, "ClientError")
    /\ UNCHANGED <<clientKind, sideVars, collectorVars, sensorVars, callerVars,
                   clientVars, netVars, histVars>>

\* --------------------------------------------------- AsyncAsciiISolar
\* variant: the transaction id is not reduced to 16 bits
NextTransId_NoWrap(t) == t + 1

\* _send_command(): self._trans_id = (self._trans_id + 1) & 0xFFFF
NextTransId(t) == (t + 1) % 65536

\* _send_command() after _ensure_connection() returned: build the packet with
\* the transaction id, advance the id, write and drain; drain() raises on a
\* transport that was closed, otherwise the task goes on to read the reply;
\* readexactly() raises when nothing is buffered and another task already
\* waits for data on the same stream
WriteCommand(c) ==
    /\ usedIds' = Append(usedIds, trans_id)
    /\ trans_id' = NextTransId(trans_id)
    /\ IF writerOpen
       THEN /\ sent' = Append(sent, [cmd |-> commands[cmdIdx[c]],
                                     tid |-> trans_id])
            /\ attempt' = [attempt EXCEPT
                              ![c].cmds = Append(@, commands[cmdIdx[c]]),
                              ![c].tids = Append(@, trans_id)]
            /\ IF inbuf = <<>> /\ \E d \in Callers \ {c} : tpc[d] = "read"
               THEN /\ tpc' = [tpc EXCEPT ![c] = "done_err"]
                    /\ err' = [err EXCEPT ![c] = "RuntimeError"]
               ELSE /\ tpc' = [tpc EXCEPT ![c] = "read"]
                    /\ UNCHANGED err
            /\ UNCHANGED <<cmdIdx, fid, ret>>
       ELSE /\ TaskRaises(c, "ConnectionResetError")
            /\ UNCHANGED sent

\* variant: _ensure_connection() without the lock
EnsureConnection_NoLock(c) ==
    /\ tpc[c] = "ensure"
    /\ IF reader # None
       THEN /\ WriteCommand(c)
            /\ UNCHANGED <<clientLock, pendingConnect, datagrams>>
       ELSE /\ clientLock' = c
            /\ pendingConnect' = pendingConnect + 1
            /\ datagrams' = datagrams + 1
            /\ attempt' = [attempt EXCEPT ![c].negs = @ + 1]
            /\ tpc' = [tpc EXCEPT ![c] = "listen"]
            /\ UNCHANGED <<cmdIdx, fid, ret, err, trans_id, usedIds, sent>>
    /\ UNCHANGED <<clientKind, sideVars, collectorVars, sensorVars, callerVars, reader,
                   writerOpen, server, listening, connCount, inbuf, started,
                   rejected, histVars>>

\* _send_command() -> _ensure_connection(): under the client lock, with a
\* reader set go on to write the command (no suspension in between); without
\* one _start_server_and_discover() sends the connect-back datagram and
\* starts the listener
EnsureConnection(c) ==
    /\ tpc[c] = "ensure"
    /\ clientLock = None
    /\ IF reader # None
       THEN /\ WriteCommand(c)
            /\ UNCHANGED <<clientLock, pendingConnect, datagrams>>
       ELSE /\ clientLock' = c
            /\ pendingConnect' = pendingConnect + 1
            /\ datagrams' = datagrams + 1
            /\ attempt' = [attempt EXCEPT ![c].negs = @ + 1]
            /\ tpc' = [tpc EXCEPT ![c] = "listen"]
            /\ UNCHANGED <<cmdIdx, fid, ret, err, trans_id, usedIds, sent>>
    /\ UNCHANGED <<clientKind, sideVars, collectorVars, sensorVars, callerVars, reader,
                   writerOpen, server, listening, connCount, inbuf, started,
                   rejected, histVars>>

\* _start_server_and_discover(): asyncio.start_server on (local_ip, 502); the
\* bind fails while an earlier listener of the client still holds the port
StartServer(c) ==
    /\ tpc[c] = "listen"
    /\ IF listening
       THEN /\ TaskRaises(c, "OSError")
            /\ clientLock' = None
            /\ UNCHANGED <<server, listening, started>>
       ELSE /\ server' = 1
            /\ listening' = TRUE
            /\ started' = started + 1
            /\ tpc' = [tpc EXCEPT ![c] = "waitconn"]
            /\ UNCHANGED <<clientLock, cmdIdx, fid, ret, err, attempt>>
    /\ UNCHANGED <<clientKind, sideVars, collectorVars, sensorVars, callerVars, reader,
                   writerOpen, trans_id, usedIds, pendingConnect, connCount, sent,
                   inbuf, datagrams, rejected, histVars>>

\* _start_server_and_discover(): "while self._reader is None: sleep(0.1)" ends,
\* _ensure_connection() releases the client lock, _send_command() writes
WaitConnected(c) ==
    /\ tpc[c] = "waitconn"
    /\ reader # None
    /\ clientLock' = None
    /\ WriteCommand(c)
    /\ UNCHANGED <<clientKind, sideVars, collectorVars, sensorVars, callerVars, reader,
                   writerOpen, server, listening, pendingConnect, connCount,
                   inbuf, datagrams, started, rejected, histVars>>

\* variant: the latest inbound connection becomes the session
HandleClient_Replace ==
    /\ pendingConnect > 0
    /\ listening
    /\ pendingConnect' = pendingConnect - 1
    /\ connCount' = connCount + 1
    /\ reader' = connCount + 1
    /\ writerOpen' = TRUE
    /\ sent' = <<>>
    /\ inbuf' = <<>>
    /\ UNCHANGED <<clientKind, sideVars, collectorVars, sensorVars, callerVars, taskVars,
                   server, clientLock, trans_id, usedIds, listening, datagrams, started,
                   rejected, histVars>>

\* _handle_client(): the listener accepted a connection of the device; it
\* becomes the session unless a reader is set, in which case it is closed
HandleClient ==
    /\ pendingConnect > 0
    /\ listening
    /\ pendingConnect' = pendingConnect - 1
    /\ connCount' = connCount + 1
    /\ IF reader = None
       THEN /\ reader' = connCount + 1
            /\ writerOpen' = TRUE
            /\ sent' = <<>>
            /\ inbuf' = <<>>
            /\ UNCHANGED rejected
       ELSE /\ rejected' = rejected \cup {connCount + 1}
            /\ UNCHANGED <<reader, writerOpen, sent, inbuf>>
    /\ UNCHANGED <<clientKind, sideVars, collectorVars, sensorVars, callerVars, taskVars,
                   server, clientLock, trans_id, usedIds, listening, datagrams, started,
                   histVars>>

\* the device connects back while nothing listens on the port: refused
ConnectRefused ==
    /\ pendingConnect > 0
    /\ ~listening
    /\ pendingConnect' = pendingConnect - 1
    /\ UNCHANGED <<clientKind, sideVars, collectorVars, sensorVars, callerVars, taskVars,
                   clientVars, listening, connCount, sent, inbuf, datagrams,
                   started, rejected, histVars>>

\* the device answers the oldest request it has received: the reply is
\* the answer to that frame, its command and its transaction id (a device
\* that is down or slow is one that does not take this step)
DeviceReply ==
    /\ writerOpen
    /\ sent # <<>>
    /\ inbuf' = Append(inbuf, Head(sent))
    /\ sent' = Tail(sent)
    /\ UNCHANGED <<clientKind, sideVars, collectorVars, sensorVars, callerVars, taskVars,
                   clientVars, listening, pendingConnect, connCount, datagrams,
                   started, rejected, histVars>>

\* variant: the reply is not awaited
ReadReply_NoWait(c) ==
    /\ tpc[c] = "read"
    /\ tpc' = [tpc EXCEPT ![c] = "sleep"]
    /\ UNCHANGED <<clientKind, sideVars, collectorVars, sensorVars, callerVars, cmdIdx,
                   fid, ret, err, attempt, clientVars, netVars, histVars>>

\* _send_command(): readexactly(6) and readexactly(length) get one reply
\* frame, the oldest unread one of the stream; its header is used for the
\* length only, and the payload is returned as the reply of the command
ReadReply(c) ==
    /\ tpc[c] = "read"
    /\ inbuf # <<>>
    /\ inbuf' = Tail(inbuf)
    /\ attempt' = [attempt EXCEPT ![c].replies = @ + 1,
                                  ![c].got = Append(@, Head(inbuf))]
    /\ tpc' = [tpc EXCEPT ![c] = "sleep"]
    /\ UNCHANGED <<clientKind, sideVars, collectorVars, sensorVars, callerVars, cmdIdx,
                   fid, ret, err, clientVars, listening, pendingConnect,
                   connCount, sent, datagrams, started, rejected, histVars>>

\* variant: a command whose reply did not come is sent again
ReadTimeout_Retry(c) ==
    /\ tpc[c] = "read"
    /\ inbuf = <<>>
    /\ tpc' = [tpc EXCEPT ![c] = "ensure"]
    /\ UNCHANGED <<clientKind, sideVars, collectorVars, sensorVars, callerVars, cmdIdx,
                   fid, ret, err, attempt, clientVars, netVars, histVars>>

\* _send_command(): wait_for(readexactly, timeout=5) expires
ReadTimeout(c) ==
    /\ tpc[c] = "read"
    /\ inbuf = <<>>
    /\ TaskRaises(c, "TimeoutError")
    /\ UNCHANGED <<clientKind, sideVars, collectorVars, sensorVars, callerVars,
                   clientVars, netVars, histVars>>

\* get_all_data(): asyncio.sleep(0.3) after a command, then the next command
\* or the clean-up
InterCommandSleep(c) ==
    /\ tpc[c] = "sleep"
    /\ IF cmdIdx[c] < Len(commands)
       THEN /\ cmdIdx' = [cmdIdx EXCEPT ![c] = @ + 1]
            /\ tpc' = [tpc EXCEPT ![c] = "ensure"]
       ELSE /\ tpc' = [tpc EXCEPT ![c] = "close_writer"]
            /\ UNCHANGED cmdIdx
    /\ attempt' = [attempt EXCEPT ![c].delays = @ + 1]
    /\ UNCHANGED <<clientKind, sideVars, collectorVars, sensorVars, callerVars, fid, ret,
                   err, clientVars, netVars, histVars>>

\* get_all_data(): self._writer.close(); await wait_closed()
CloseWriter(c) ==
    /\ tpc[c] = "close_writer"
    /\ writerOpen' = FALSE
    /\ sent' = <<>>
    /\ tpc' = [tpc EXCEPT ![c] = "close_server"]
    /\ UNCHANGED <<clientKind, sideVars, collectorVars, sensorVars, callerVars, cmdIdx,
                   fid, ret, err, attempt, reader, server, clientLock,
                   trans_id, usedIds, listening, pendingConnect, connCount, inbuf,
                   datagrams, started, rejected, histVars>>

\* get_all_data(): self._server.close(); await wait_closed()
CloseServer(c) ==
    /\ tpc[c] = "close_server"
    /\ listening' = IF server # None THEN FALSE ELSE listening
    /\ tpc' = [tpc EXCEPT ![c] = "build"]
    /\ UNCHANGED <<clientKind, sideVars, collectorVars, sensorVars, callerVars, cmdIdx,
                   fid, ret, err, attempt, clientVars, pendingConnect,
                   connCount, sent, inbuf, datagrams, started, rejected,
                   histVars>>

\* get_all_data(): parse the replies and build the five records; the call
\* SystemStatus(..., inverter_info=, warnings=) raises TypeError unless the
\* dataclass has those fields; then _do_update() goes on with the tuple
BuildRecords(c) ==
    /\ tpc[c] = "build"
    /\ IF DataclassAccepts(SystemStatusFields, SystemStatusKwargs)
       THEN DoUpdate(c, [k \in DataTypes |-> fid[c]])
       ELSE /\ TaskRaises(c, "TypeError")
            /\ UNCHANGED <<data, consecutive_failures, last_successful_update>>
    /\ UNCHANGED <<clientKind, sideVars, lock, sensorVars, callerVars, clientVars,
                   netVars, histVars>>

\* --------------------------------- AsyncAsciiISolar called directly
\* a task calls _send_command(commands[k]) on the client itself; nothing keeps
\* such calls from overlapping (tasks are interchangeable, a new one takes the
\* lowest free slot)
SendCommand_Call(c, k) ==
    /\ tpc[c] = "none"
    /\ \A d \in Callers : d < c => tpc[d] # "none"
    /\ fetchCount < MaxSends
    /\ tpc' = [tpc EXCEPT ![c] = "ensure"]
    /\ cmdIdx' = [cmdIdx EXCEPT ![c] = k]
    /\ fetchCount' = fetchCount + 1
    /\ UNCHANGED <<clientKind, sideVars, collectorVars, sensorVars, callerVars, fid, ret,
                   err, attempt, clientVars, netVars, calls, okCount, lastEnd,
                   startData, startLast, afterTimeout>>

\* _send_command() has returned the reply or raised: the call is over
SendCommand_End(c) ==
    /\ tpc[c] \in {"sleep", "done_err"}
    /\ tpc' = [tpc EXCEPT ![c] = "none"]
    /\ cmdIdx' = [cmdIdx EXCEPT ![c] = 0]
    /\ err' = [err EXCEPT ![c] = NoError]
    /\ attempt' = [attempt EXCEPT ![c] = NoAttempt]
    /\ UNCHANGED <<clientKind, sideVars, collectorVars, sensorVars, callerVars, fid, ret,
                   clientVars, netVars, histVars>>

\* ------------------------------ several AsyncAsciiISolar on one host
\* get_all_data() of instance i -> _send_command() -> _ensure_connection():
\* with no reader set, send the connect-back datagram to device i; with a
\* reader set (an earlier poll was connected) the command is written to the
\* session, which that poll has closed
Poll(i) ==
    /\ nego[i] \in {"idle", "failed", "closed"}
    /\ polls < MaxPolls
    /\ polls' = polls + 1
    /\ IF readers[i] = None
       THEN /\ connecting' = connecting \cup {i}
            /\ nego' = [nego EXCEPT ![i] = "listen"]
       ELSE /\ nego' = [nego EXCEPT ![i] = "failed"]
            /\ UNCHANGED connecting
    /\ UNCHANGED <<mainVars, notPortVars, readers, listeners, closedBy>>

\* asyncio.start_server(host=local_ip, port=502) of instance i: the bind
\* fails while the listener of any instance holds the port of that address
Bind(i) ==
    /\ nego[i] = "listen"
    /\ IF listeners # {}
       THEN /\ nego' = [nego EXCEPT ![i] = "failed"]
            /\ UNCHANGED listeners
       ELSE /\ listeners' = {i}
            /\ nego' = [nego EXCEPT ![i] = "waitconn"]
    /\ UNCHANGED <<mainVars, notPortVars, readers, connecting, closedBy, polls>>

\* device d connects to (local_ip, 502): the connection goes to the listener
\* that holds the port, whose _handle_client() binds or closes it
Accept(d) ==
    /\ d \in connecting
    /\ connecting' = connecting \ {d}
    /\ \E i \in listeners :
          IF readers[i] = None
          THEN /\ readers' = [readers EXCEPT ![i] = d]
               /\ UNCHANGED closedBy
          ELSE /\ closedBy' = [closedBy EXCEPT ![i] = @ \cup {d}]
               /\ UNCHANGED readers
    /\ UNCHANGED <<mainVars, notPortVars, nego, listeners, polls>>

\* device d connects while no listener holds the port: refused
Refused(d) ==
    /\ d \in connecting
    /\ listeners = {}
    /\ connecting' = connecting \ {d}
    /\ UNCHANGED <<mainVars, notPortVars, nego, readers, listeners, closedBy, polls>>

\* "while self._reader is None" of instance i ends: it is connected and
\* exchanges its commands
Connected(i) ==
    /\ nego[i] = "waitconn"
    /\ readers[i] # None
    /\ nego' = [nego EXCEPT ![i] = "connected"]
    /\ UNCHANGED <<mainVars, notPortVars, readers, listeners, connecting, closedBy, polls>>

\* get_all_data() of instance i after its commands: close the session and
\* the listener
Close(i) ==
    /\ nego[i] = "connected"
    /\ nego' = [nego EXCEPT ![i] = "closed"]
    /\ listeners' = listeners \ {i}
    /\ UNCHANGED <<mainVars, notPortVars, readers, connecting, closedBy, polls>>

\* ------------------------------------------------------ frame codec
\* command.encode("ascii") for the commands of the client and for three more
\* commands of the device's protocol
encode_ascii(cmd) ==
    CASE cmd = "QPIGS"  -> <<81, 80, 73, 71, 83>>
      [] cmd = "QPIRI"  -> <<81, 80, 73, 82, 73>>
      [] cmd = "QMOD"   -> <<81, 77, 79, 68>>
      [] cmd = "QPIWS"  -> <<81, 80, 73, 87, 83>>
      [] cmd = "QPIGS2" -> <<81, 80, 73, 71, 83, 50>>
      [] cmd = "POP02"  -> <<80, 79, 80, 48, 50>>
      [] cmd = "QGMN"   -> <<81, 71, 77, 78>>
      [] cmd = "QBOOT"  -> <<81, 66, 79, 79, 84>>

\* a ^ b on non-negative integers
Xor[a \in Nat, b \in Nat] ==
    IF a = 0 THEN b
    ELSE IF b = 0 THEN a
    ELSE 2 * Xor[a \div 2, b \div 2] + ((a + b) % 2)

\* _compute_crc_xmodem(): "for _ in range(n)" shifts of the 16-bit register
CrcShift[crc \in Nat, n \in Nat] ==
    IF n = 0 THEN crc
    ELSE CrcShift[IF (crc \div 32768) % 2 = 1
                  THEN Xor[crc * 2, 4129] % 65536
                  ELSE (crc * 2) % 65536,
                  n - 1]

\* _compute_crc_xmodem(): "for b in data" from the register value crc
CrcFrom[crc \in Nat, bytes \in Seq(Nat)] ==
    IF bytes = <<>> THEN crc
    ELSE CrcFrom[CrcShift[Xor[crc, Head(bytes) * 256], 8], Tail(bytes)]

\* _compute_crc_xmodem()
compute_crc_xmodem(bytes) == CrcFrom[0, bytes]

\* variant: no byte is escaped
adjust_crc_byte_Identity(b) == b

\* _adjust_crc_byte()
adjust_crc_byte(b) ==
    IF b \in {10, 13, 40} THEN (b + 1) % 256 ELSE b

\* _build_packet(): payload = cmd + bytes([hi, lo, 0x0D])
Payload(cmd) ==
    encode_ascii(cmd) \o
        << adjust_crc_byte((compute_crc_xmodem(encode_ascii(cmd)) \div 256) % 256),
           adjust_crc_byte(compute_crc_xmodem(encode_ascii(cmd)) % 256),
           13 >>

\* variant: the length field is the length of the payload
build_packet_PayloadLength(cmd, tid) ==
    << (tid \div 256) % 256, tid % 256,
       0, 1,
       (Len(Payload(cmd)) \div 256) % 256, Len(Payload(cmd)) % 256,
       255, 4 >> \o Payload(cmd)

\* _build_packet(): hdr + payload, with length = len(payload) + 2
build_packet(cmd, tid) ==
    << (tid \div 256) % 256, tid % 256,
       0, 1,
       ((Len(Payload(cmd)) + 2) \div 256) % 256, (Len(Payload(cmd)) + 2) % 256,
       255, 4 >> \o Payload(cmd)

\* int.from_bytes(b, "big")
from_bytes_big[b \in Seq(Nat)] ==
    IF b = <<>> THEN 0
    ELSE from_bytes_big[SubSeq(b, 1, Len(b) - 1)] * 256 + b[Len(b)]

\* transaction ids the frames are built with
TransIds == {0, 1, 255, 256, 257, 4660, 65534, 65535}

\* _send_command(): pkt = self._build_packet(cmd, self._trans_id)
BuildPacket ==
    /\ packet = <<>>
    /\ packet' = build_packet(command, trans_id_arg)
    /\ UNCHANGED <<mainVars, notFrameVars, command, trans_id_arg, length,
                   byte, adjusted>>

\* the receiver of the frame: hdr = the first 6 bytes,
\* length = int.from_bytes(hdr[4:6], "big")
ParseHeader ==
    /\ packet # <<>>
    /\ length = None
    /\ length' = from_bytes_big[SubSeq(SubSeq(packet, 1, 6), 5, 6)]
    /\ UNCHANGED <<mainVars, notFrameVars, command, trans_id_arg, packet,
                   byte, adjusted>>

\* _build_packet(): self._adjust_crc_byte(b) for one byte
AdjustCrcByte ==
    /\ adjusted = <<>>
    /\ adjusted' = <<adjust_crc_byte(byte)>>
    /\ UNCHANGED <<mainVars, notFrameVars, command, trans_id_arg, packet, length,
                   byte>>

\* ------------------------------------------------------ reply parsers
\* A reply of QPIGS, QPIGS2 or QPIRI is the list of its fields,
\* raw.strip("()").split(); a numeric field is written in tenths (52.4 is
\* 524). A reply of QPIWS is the list of its characters, a reply of QMOD the
\* one-element list of its code string.

\* int(x) of a quotient n / d: truncation toward zero
Trunc(n, d) == IF n >= 0 THEN n \div d ELSE -((-n) \div d)

\* f[k] on a Python list raises IndexError unless k < len(f)
HasIndices(f, ks) == \A k \in ks : k < Len(f)

\* what a parser leaves behind when f[k] raises
IndexError == [kind |-> "IndexError"]

\* _parse_qpigs(): the indices it reads
QpigsIndices == (0..13) \cup {19}

\* _parse_qpigs()
parse_qpigs(f) ==
    IF ~HasIndices(f, QpigsIndices) THEN IndexError
    ELSE [kind             |-> "qpigs",
          grid_voltage     |-> f[1],
          grid_frequency   |-> f[2],
          output_voltage   |-> f[3],
          output_frequency |-> f[4],
          apparent_power   |-> Trunc(f[5], 10),
          active_power     |-> Trunc(f[6], 10),
          load_percent     |-> Trunc(f[7], 10),
          bus_voltage      |-> f[8],
          battery_voltage  |-> f[9],
          battery_current  |-> f[10],
          battery_soc      |-> Trunc(f[11], 10),
          battery_temp     |-> Trunc(f[12], 10),
          pv_current       |-> f[13],
          pv_voltage       |-> f[14],
          pv_charge_power  |-> Trunc(f[20], 10)]

\* _parse_qpigs2()
parse_qpigs2(f) ==
    IF ~HasIndices(f, 0..2) THEN IndexError
    ELSE [kind        |-> "qpigs2",
          pv2_current |-> f[1],
          pv2_voltage |-> f[2],
          pv2_power   |-> Trunc(f[3], 10)]

\* _parse_qmod(): the table of mode names
ModeNames ==
    [code \in {"P", "S", "L", "B", "F", "H"} |->
        CASE code = "P" -> "Power On Mode"
          [] code = "S" -> "Standby Mode"
          [] code = "L" -> "Line Mode"
          [] code = "B" -> "Battery Mode"
          [] code = "F" -> "Fault Mode"
          [] code = "H" -> "Power Saving Mode"]

\* _parse_qmod(): table.get(code, code)
parse_qmod(code) ==
    [kind      |-> "qmod",
     mode_name |-> IF code \in DOMAIN ModeNames THEN ModeNames[code] ELSE code]

\* _parse_qpiri(): the 27 rating attributes are built from f[0] .. f[26]
\* (the enumeration tables use .get(f[k], f[k]) and raise nothing)
parse_qpiri(f) ==
    IF Len(f) < 27 THEN [kind |-> "invalid", error |-> "Invalid QPIRI response"]
    ELSE [kind |-> "qpiri", values |-> SubSeq(f, 1, 27)]

\* _parse_qpiws(): the keys of warn_map in the order the dict literal lists
\* them, which is the order warn_map.items() yields
warn_order ==
    << 0, 1, 2, 3, 4, 5, 6, 7, 8, 9, 10, 11, 12, 13, 14, 15, 17, 19, 20, 21,
       22, 23, 24, 25, 26, 27, 28, 29, 30, 31, 32 >>

\* _parse_qpiws(): warn_map
warn_map ==
    [idx \in {warn_order[i] : i \in DOMAIN warn_order} |->
        CASE idx = 0  -> "Reserved"
          [] idx = 1  -> "Inverter fault"
          [] idx = 2  -> "Bus over"
          [] idx = 3  -> "Bus under"
          [] idx = 4  -> "Bus soft fail"
          [] idx = 5  -> "Line fail"
          [] idx = 6  -> "OPV short"
          [] idx = 7  -> "Inverter voltage low"
          [] idx = 8  -> "Inverter voltage high"
          [] idx = 9  -> "Inverter soft fail"
          [] idx = 10 -> "Inverter over current"
          [] idx = 11 -> "Inverter over load"
          [] idx = 12 -> "Inverter over temperature"
          [] idx = 13 -> "Fan locked"
          [] idx = 14 -> "Battery voltage high"
          [] idx = 15 -> "Battery low alarm"
          [] idx = 17 -> "Battery under shutdown"
          [] idx = 19 -> "Over load"
          [] idx = 20 -> "EEPROM fault"
          [] idx = 21 -> "Inverter over current"
          [] idx = 22 -> "Inverter soft fail"
          [] idx = 23 -> "Self test fail"
          [] idx = 24 -> "OP DC voltage over"
          [] idx = 25 -> "Battery open"
          [] idx = 26 -> "Current sensor fail"
          [] idx = 27 -> "Battery short"
          [] idx = 28 -> "Power limit"
          [] idx = 29 -> "PV voltage high"
          [] idx = 30 -> "MPPT overload fault"
          [] idx = 31 -> "MPPT overload warning"
          [] idx = 32 -> "Battery too low to charge"]

\* _parse_qpiws(): [name for idx, name in warn_map.items()
\*                  if idx < len(bits) and bits[idx] == '1']
warnings_of(bits) ==
    LET IsSet(idx) == idx < Len(bits) /\ bits[idx + 1] = "1"
        set == SelectSeq(warn_order, IsSet)
    IN  [i \in DOMAIN set |-> warn_map[set[i]]]

\* variant: the list comprehension alone, without 'or ["No warnings"]'
parse_qpiws_NoMarker(bits) ==
    IF Len(bits) < 32 THEN [kind |-> "invalid",
                            list |-> <<"Invalid QPIWS response">>]
    ELSE [kind |-> "qpiws", list |-> warnings_of(bits)]

\* _parse_qpiws()
parse_qpiws(bits) ==
    IF Len(bits) < 32 THEN [kind |-> "invalid",
                            list |-> <<"Invalid QPIWS response">>]
    ELSE [kind |-> "qpiws",
          list |-> IF warnings_of(bits) # <<>> THEN warnings_of(bits)
                   ELSE <<"No warnings">>]

\* voltage and current pairs of the inputs, in tenths, whose product as
\* IEEE 754 doubles lies just below the exact integer product
\* (0.7 * 90.0 is 62.99999999999999)
FloatBelow == {<<7, 900>>}

\* get_all_data(): int(p1["battery_voltage"] * p1["battery_current"]), the
\* product of two doubles truncated toward zero; v and c are in tenths and not
\* negative
battery_power(v, c) ==
    IF <<v, c>> \in FloatBelow THEN Trunc(v * c, 100) - 1
    ELSE Trunc(v * c, 100)

\* get_all_data(): p1 = self._parse_qpigs(raw["QPIGS"])
ParseQpigs ==
    /\ raw_cmd = "QPIGS"
    /\ parsed = <<>>
    /\ parsed' = <<parse_qpigs(raw)>>
    /\ UNCHANGED <<mainVars, notParseVars, raw_cmd, raw, battery>>

\* get_all_data(): p2 = self._parse_qpigs2(raw["QPIGS2"])
ParseQpigs2 ==
    /\ raw_cmd = "QPIGS2"
    /\ parsed = <<>>
    /\ parsed' = <<parse_qpigs2(raw)>>
    /\ UNCHANGED <<mainVars, notParseVars, raw_cmd, raw, battery>>

\* get_all_data(): mode_name = self._parse_qmod(raw["QMOD"])
ParseQmod ==
    /\ raw_cmd = "QMOD"
    /\ parsed = <<>>
    /\ parsed' = <<parse_qmod(raw[1])>>
    /\ UNCHANGED <<mainVars, notParseVars, raw_cmd, raw, battery>>

\* get_all_data(): info = self._parse_qpiri(raw["QPIRI"])
ParseQpiri ==
    /\ raw_cmd = "QPIRI"
    /\ parsed = <<>>
    /\ parsed' = <<parse_qpiri(raw)>>
    /\ UNCHANGED <<mainVars, notParseVars, raw_cmd, raw, battery>>

\* get_all_data(): warns = self._parse_qpiws(raw["QPIWS"])
ParseQpiws ==
    /\ raw_cmd = "QPIWS"
    /\ parsed = <<>>
    /\ parsed' = <<parse_qpiws(raw)>>
    /\ UNCHANGED <<mainVars, notParseVars, raw_cmd, raw, battery>>

\* get_all_data(): battery = BatteryData(...)
BuildBattery ==
    /\ raw_cmd = "QPIGS"
    /\ parsed # <<>>
    /\ parsed[1].kind = "qpigs"
    /\ battery = <<>>
    /\ battery' = << [voltage     |-> parsed[1].battery_voltage,
                      current     |-> parsed[1].battery_current,
                      power       |-> battery_power(parsed[1].battery_voltage,
                                                    parsed[1].battery_current),
                      soc         |-> parsed[1].battery_soc,
                      temperature |-> parsed[1].battery_temp] >>
    /\ UNCHANGED <<mainVars, notParseVars, raw_cmd, raw, parsed>>

\* ------------------------------------------------- async_setup_entry
\* the number of EasunSensor entities in the list literal
NumStaticSensors == 22

\* len(QPIRI_FIELDS)
NumQpiriFields == 27

\* async_setup_entry(): "if not inverter_ip or not local_ip: return"
Setup_MissingIp ==
    /\ spc = "start"
    /\ ~inverter_ip \/ ~local_ip
    /\ spc' = "returned"
    /\ UNCHANGED <<mainVars, notSetupVars, model, inverter_ip, local_ip,
                   client, entities>>

\* async_setup_entry(): "if model in ASCII_MODELS: client = AsyncAsciiISolar(...)
\* else: client = AsyncISolar(...)", then the collector is built on it
Setup_ChooseClient ==
    /\ spc = "start"
    /\ inverter_ip /\ local_ip
    /\ client' = IF model \in ASCII_MODELS THEN "ascii" ELSE "register"
    /\ spc' = "static"
    /\ UNCHANGED <<mainVars, notSetupVars, model, inverter_ip, local_ip,
                   entities>>

\* async_setup_entry(): the next EasunSensor(collector, ...) of the list
Setup_StaticSensor ==
    /\ spc = "static"
    /\ Len(entities) < NumStaticSensors
    /\ entities' = Append(entities, "EasunSensor")
    /\ UNCHANGED <<mainVars, notSetupVars, model, inverter_ip, local_ip,
                   client, spc>>

\* async_setup_entry(): "if model in ASCII_MODELS:" one InverterInfoSensor
\* for each field of QPIRI_FIELDS and one InverterWarningsSensor
Setup_DynamicSensors ==
    /\ spc = "static"
    /\ Len(entities) = NumStaticSensors
    /\ entities' = IF model \in ASCII_MODELS
                   THEN entities \o [k \in 1..NumQpiriFields |->
                                        "InverterInfoSensor"]
                                 \o <<"InverterWarningsSensor">>
                   ELSE entities
    /\ spc' = "add"
    /\ UNCHANGED <<mainVars, notSetupVars, model, inverter_ip, local_ip,
                   client>>

\* async_setup_entry(): add_entities(entities, True) and the schedule of
\* the periodic update
Setup_AddEntities ==
    /\ spc = "add"
    /\ spc' = "done"
    /\ UNCHANGED <<mainVars, notSetupVars, model, inverter_ip, local_ip,
                   client, entities>>

\* ------------------------------------------------------------- system
Next ==
    \/ RegisterSensor
    \/ \E c \in Callers : UpdateData_Skip(c)
    \/ \E c \in Callers : UpdateData_Acquire(c)
    \/ \E c \in Callers : UpdateData_Notify(c)
    \/ \E c \in Callers : UpdateData_Raise(c)
    \/ \E c \in Callers : WaitForTimeout(c)
    \/ \E c \in Callers : UpdateData_TimedOut(c)
    \/ \E c \in Callers : \E present \in PresentChoices : Client_Return(c, present)
    \/ \E c \in Callers : Client_Raise(c)
    \/ \E c \in Callers : EnsureConnection(c)
    \/ \E c \in Callers : StartServer(c)
    \/ \E c \in Callers : WaitConnected(c)
    \/ HandleClient
    \/ ConnectRefused
    \/ DeviceReply
    \/ \E c \in Callers : ReadReply(c)
    \/ \E c \in Callers : ReadTimeout(c)
    \/ \E c \in Callers : InterCommandSleep(c)
    \/ \E c \in Callers : CloseWriter(c)
    \/ \E c \in Callers : CloseServer(c)
    \/ \E c \in Callers : BuildRecords(c)

Spec == Init /\ [][Next]_vars

\* what the event loop does for a call that waits in wait_for(): the timer
\* armed when the wait began expires, or the call is resumed because its
\* task is done or cancelled
Resume ==
    \E c \in Callers :
        \/ WaitForTimeout(c)
        \/ UpdateData_TimedOut(c)
        \/ UpdateData_Notify(c)
        \/ UpdateData_Raise(c)

\* the event loop does not postpone the timer and the resumption for ever
Fairness == WF_vars(Resume)

\* the refreshes of a collector, whose sensors play no part in them
LiveNext ==
    \/ \E c \in Callers : UpdateData_Skip(c)
    \/ \E c \in Callers : UpdateData_Acquire(c)
    \/ \E c \in Callers : UpdateData_Notify(c)
    \/ \E c \in Callers : UpdateData_Raise(c)
    \/ \E c \in Callers : WaitForTimeout(c)
    \/ \E c \in Callers : UpdateData_TimedOut(c)
    \/ \E c \in Callers : \E present \in PresentChoices : Client_Return(c, present)
    \/ \E c \in Callers : Client_Raise(c)
    \/ \E c \in Callers : EnsureConnection(c)
    \/ \E c \in Callers : StartServer(c)
    \/ \E c \in Callers : WaitConnected(c)
    \/ HandleClient
    \/ ConnectRefused
    \/ DeviceReply
    \/ \E c \in Callers : ReadReply(c)
    \/ \E c \in Callers : ReadTimeout(c)
    \/ \E c \in Callers : InterCommandSleep(c)
    \/ \E c \in Callers : CloseWriter(c)
    \/ \E c \in Callers : CloseServer(c)
    \/ \E c \in Callers : BuildRecords(c)

\* the collector whose timer and resumptions are not postponed for ever
LiveSpec == Init /\ [][LiveNext]_vars /\ Fairness

\* one textual client, starting Disconnected, whose _send_command() is called
\* by tasks that may overlap
ClientInit == Init /\ clientKind = "ascii"

ClientNext ==
    \/ \E c \in Callers : \E k \in DOMAIN commands : SendCommand_Call(c, k)
    \/ \E c \in Callers : SendCommand_End(c)
    \/ \E c \in Callers : EnsureConnection(c)
    \/ \E c \in Callers : StartServer(c)
    \/ \E c \in Callers : WaitConnected(c)
    \/ HandleClient
    \/ ConnectRefused
    \/ DeviceReply
    \/ \E c \in Callers : ReadReply(c)
    \/ \E c \in Callers : ReadTimeout(c)

ClientSpec == ClientInit /\ [][ClientNext]_vars

\* transaction ids a client that has sent many frames can be at
WrapStarts == {0, 65534, 65535}

\* a client that negotiated long ago and has sent many frames since: its
\* session is still open (every later poll was aborted) or a poll closed it
WrapInit ==
    /\ clientKind = "ascii"
    /\ data = EmptyData
    /\ lock = FALSE
    /\ consecutive_failures = 0
    /\ last_successful_update = None
    /\ sensors = <<>>
    /\ sensorState = <<>>
    /\ pc = [c \in Callers |-> "idle"]
    /\ result = [c \in Callers |-> "none"]
    /\ tpc = [c \in Callers |-> "none"]
    /\ cmdIdx = [c \in Callers |-> 0]
    /\ fid = [c \in Callers |-> 0]
    /\ ret = [c \in Callers |-> EmptyData]
    /\ err = [c \in Callers |-> NoError]
    /\ attempt = [c \in Callers |-> NoAttempt]
    /\ reader = 1
    /\ writerOpen \in BOOLEAN
    /\ server = 1
    /\ clientLock = None
    /\ trans_id \in WrapStarts
    /\ usedIds = <<>>
    /\ listening = writerOpen
    /\ pendingConnect = 0
    /\ connCount = 1
    /\ sent = <<>>
    /\ inbuf = <<>>
    /\ datagrams = 1
    /\ started = 1
    /\ rejected = {}
    /\ calls = 0
    /\ fetchCount = 0
    /\ okCount = 0
    /\ lastEnd = "none"
    /\ startData = [c \in Callers |-> EmptyData]
    /\ startLast = [c \in Callers |-> None]
    /\ afterTimeout = [c \in Callers |-> FALSE]
    /\ InitHost
    /\ InitFrame
    /\ InitParse
    /\ InitSetup

WrapNext ==
    \/ \E c \in Callers : \E k \in DOMAIN commands : SendCommand_Call(c, k)
    \/ \E c \in Callers : SendCommand_End(c)
    \/ \E c \in Callers : EnsureConnection(c)
    \/ DeviceReply
    \/ \E c \in Callers : ReadReply(c)
    \/ \E c \in Callers : ReadTimeout(c)

WrapSpec == WrapInit /\ [][WrapNext]_vars

\* _build_packet(command, trans_id) takes any command string: besides the
\* client's own, commands of the protocol whose checksum has a byte that is
\* escaped (POP02: 0xE2 0x0A, QGMN: 0x49 0x28, QBOOT: 0x0A 0x88)
FrameCommands ==
    {commands[k] : k \in DOMAIN commands} \cup {"POP02", "QGMN", "QBOOT"}

\* a frame is built for a command and its header is read back, or one byte
\* is passed through the escape
FrameInit ==
    /\ InitMain
    /\ clientKind = "ascii"
    /\ InitHost
    /\ InitParse
    /\ InitSetup
    /\ \/ /\ command \in FrameCommands
          /\ trans_id_arg \in TransIds
          /\ byte = 0
       \/ /\ command = commands[1]
          /\ trans_id_arg = 0
          /\ byte \in 0..255
    /\ packet = <<>>
    /\ length = None
    /\ adjusted = <<>>

FrameNext ==
    \/ BuildPacket
    \/ ParseHeader
    \/ AdjustCrcByte

FrameSpec == FrameInit /\ [][FrameNext]_vars

\* battery voltages and currents of the QPIGS replies, in tenths
Voltages == {0, 7, 480, 524, 525}
Currents == {0, 5, 102, 103, 900}

\* the reply of the spec's example with 21 fields, for a battery voltage and
\* current: (230.0 50.0 230.0 50.0 3000 2800 60 360.0 v c 85 35 12.3 180.0 ...)
QpigsFields(v, c) ==
    << 2300, 500, 2300, 500, 30000, 28000, 600, 3600, v, c, 850, 350, 123,
       1800, 0, 0, 0, 0, 0, 20000, 0 >>

\* QPIGS replies of 0 to 21 fields
QpigsReplies ==
    {SubSeq(QpigsFields(v, c), 1, n) : v \in Voltages, c \in Currents,
                                       n \in {0, 1, 9, 10, 14, 19, 20, 21}}

\* QPIGS2 replies of 0 to 4 fields
Qpigs2Replies == {SubSeq(<<51, 1795, 9100, 0>>, 1, n) : n \in 0..4}

\* QPIRI replies of 0, 26, 27 and 28 fields
QpiriReplies == {[k \in 1..n |-> k] : n \in {0, 26, 27, 28}}

\* QMOD replies: the six codes of the table, another one, and none
QmodReplies == {<<code>> : code \in {"P", "S", "L", "B", "F", "H", "X", ""}}

\* the sets of at most k positions of a warnings reply
OnesSets[k \in Nat] ==
    IF k = 0 THEN {{}}
    ELSE OnesSets[k - 1] \cup
         {S \cup {x} : S \in OnesSets[k - 1], x \in 0..(MaxBits - 1)}

\* QPIWS replies: bit strings of 31 to MaxBits characters with at most
\* MaxOnes '1' characters, and the empty reply
QpiwsReplies ==
    {<<>>} \cup
    {[i \in 1..n |-> IF i - 1 \in ones THEN "1" ELSE "0"] :
        n \in 31..MaxBits, ones \in OnesSets[MaxOnes]}

\* one reply is parsed by the parser of its command
ParseInit ==
    /\ InitMain
    /\ clientKind = "ascii"
    /\ InitHost
    /\ InitFrame
    /\ InitSetup
    /\ \/ raw_cmd = "QPIGS" /\ raw \in QpigsReplies
       \/ raw_cmd = "QPIGS2" /\ raw \in Qpigs2Replies
       \/ raw_cmd = "QPIRI" /\ raw \in QpiriReplies
       \/ raw_cmd = "QMOD" /\ raw \in QmodReplies
       \/ raw_cmd = "QPIWS" /\ raw \in QpiwsReplies
    /\ parsed = <<>>
    /\ battery = <<>>

ParseNext ==
    \/ ParseQpigs
    \/ ParseQpigs2
    \/ ParseQmod
    \/ ParseQpiri
    \/ ParseQpiws
    \/ BuildBattery

ParseSpec == ParseInit /\ [][ParseNext]_vars

\* a config entry is set up: its model is one of the two tables' keys, its
\* addresses are there or missing
SetupInit ==
    /\ InitMain
    /\ clientKind = "ascii"
    /\ InitHost
    /\ InitFrame
    /\ InitParse
    /\ model \in MODEL_CONFIGS \cup ASCII_MODEL_CONFIGS
    /\ inverter_ip \in BOOLEAN
    /\ local_ip \in BOOLEAN
    /\ client = "none"
    /\ entities = <<>>
    /\ spc = "start"

SetupNext ==
    \/ Setup_MissingIp
    \/ Setup_ChooseClient
    \/ Setup_StaticSensor
    \/ Setup_DynamicSensors
    \/ Setup_AddEntities

SetupSpec == SetupInit /\ [][SetupNext]_vars

\* client instances for different devices, all with the same local address
HostNext ==
    \/ \E i \in Clients : Poll(i)
    \/ \E i \in Clients : Bind(i)
    \/ \E d \in Clients : Accept(d)
    \/ \E d \in Clients : Refused(d)
    \/ \E i \in Clients : Connected(i)
    \/ \E i \in Clients : Close(i)

HostSpec == ClientInit /\ [][HostNext]_vars

TypeOK ==
    /\ clientKind \in ClientKinds
    /\ lock \in BOOLEAN
    /\ pc \in [Callers -> {"idle", "waiting"}]
    /\ tpc \in [Callers -> TaskPcs]
    /\ err \in [Callers -> Errors \cup {NoError}]
    /\ trans_id \in 0..65535

\* --------------------------------------------------------- properties

\* C1: at most one fetch (_do_update task) of a collector is in flight, under
\* any interleaving of update_data() calls.
C1_SingleFlight ==
    Cardinality({c \in Callers : tpc[c] \in RunningPcs}) <= 1

\* a second update_data() arrived while a fetch was in flight
C1_Witness ==
    \E c, d \in Callers :
        c # d /\ tpc[c] \in RunningPcs /\ result[d] = "skipped" /\ calls = 2

\* C2: an update_data() call made while the lock is held returns at once: it
\* does not wait, starts no fetch and leaves the running refresh alone; and
\* when the running refresh releases the lock no caller is left waiting and no
\* further fetch is started.
C2_NoQueue ==
    [][ /\ (calls' = calls + 1 /\ lock) =>
              (lock' /\ pc' = pc /\ tpc' = tpc /\ fetchCount' = fetchCount)
        /\ (lock /\ ~lock') =>
              (/\ fetchCount' = fetchCount
               /\ \A c \in Callers : pc'[c] = "idle" /\ tpc'[c] = "none") ]_vars

\* a call was skipped during the only fetch, and that fetch has ended
C2_Witness ==
    /\ ~lock
    /\ fetchCount = 1
    /\ calls = 2
    /\ \E c, d \in Callers : result[c] = "skipped" /\ result[d] = "ok"

\* C3: after a refresh that timed out the lock is free, and the next refresh
\* of the textual client does not fail, unless the device is again too slow
\* (a time-out is the only failure a device that answers late can cause).
C3_TimeoutRecovers ==
    /\ (lastEnd = "timeout" /\ \A c \in Callers : pc[c] = "idle") => ~lock
    /\ \A c \in Callers :
          (clientKind = "ascii" /\ afterTimeout[c] /\ tpc[c] = "done_err")
              => err[c] = "TimeoutError"

\* C4: every failed refresh increments the consecutive-failure counter (from
\* which the retry delay min(30, 2^count) is computed): once the latest
\* refresh has failed or timed out, the counter is at least 1.
C4_FailuresCounted ==
    (~lock /\ lastEnd \in {"error", "timeout"}) => consecutive_failures >= 1

\* C5: no exception leaves update_data(): every call ends by returning.
C5_NoExceptionLeaves ==
    \A c \in Callers : result[c] \in {"none", "skipped", "ok"}

\* C6: get_data() never exposes a snapshot with some sub-records present and
\* others None: all five are None or all five are objects.
C6_AllOrNothing ==
    \/ \A k \in DataTypes : get_data(data, k) = None
    \/ \A k \in DataTypes : get_data(data, k) # None

C8_SuccessReplaces ==
    \A c \in Callers : tpc[c] = "done_ok" =>
        /\ data = ret[c]
        /\ \A k \in DataTypes : data[k] \in {None, fid[c]}
        /\ \E k \in DataTypes : data[k] = fid[c]
        /\ consecutive_failures = 0

\* a second successful fetch replaced the snapshot of the first
C8_Witness ==
    \E c \in Callers :
        /\ tpc[c] = "done_ok"
        /\ fid[c] = 2
        /\ \E k \in DataTypes : get_data(startData[c], k) = 1

\* C9: a refresh whose fetch returned five None raises, notifies no sensor and
\* leaves the snapshot and the last-success time as they were at its start.
C9_EmptyIsFailure ==
    [][ \A c \in Callers :
          (/\ pc[c] = "waiting" /\ pc'[c] = "idle"
           /\ DOMAIN ret[c] = DataTypes
           /\ \A k \in DataTypes : ret[c][k] = None)
          => (/\ result'[c] = "RuntimeError"
              /\ sensorState' = sensorState
              /\ data' = startData[c]
              /\ last_successful_update' = startLast[c]) ]_vars

\* an empty fetch ended a refresh while a sensor was registered and a
\* snapshot was published
C9_Witness ==
    /\ \E c \in Callers : result[c] = "RuntimeError" /\ pc[c] = "idle"
    /\ Len(sensors) > 0
    /\ \E k \in DataTypes : get_data(data, k) # None

\* C10: the step that ends a successful refresh notifies every registered
\* sensor exactly once, and each reads the snapshot that refresh stored; no
\* other step (failure, timeout, skip) notifies a sensor.
C10_NotifyOnSuccess ==
    [][ /\ \A c \in Callers : (tpc[c] = "done_ok" /\ tpc'[c] = "none") =>
              (/\ sensors' = sensors
               /\ DOMAIN sensorState' = DOMAIN sensors
               /\ data = ret[c]
               /\ \A s \in DOMAIN sensorState :
                     /\ sensorState'[s].count = sensorState[s].count + 1
                     /\ sensorState'[s].seen = View(ret[c]))
        /\ (\E s \in DOMAIN sensorState : sensorState'[s] # sensorState[s]) =>
              (\E c \in Callers : /\ tpc[c] = "done_ok"
                                  /\ tpc'[c] = "none"
                                  /\ result'[c] = "ok") ]_vars

\* a sensor was notified by one refresh and not by the failed one after it
C10_Witness ==
    /\ Len(sensors) > 0
    /\ sensorState[1].count = 1
    /\ okCount = 1
    /\ lastEnd \in {"error", "timeout"}

\* C11: every poll of the textual client negotiates a fresh session before its
\* first command: a command frame is written (the transaction id advances)
\* only to a connection that is open, never to one an earlier poll closed.
C11_ReconnectPerCycle ==
    [][ trans_id' # trans_id => writerOpen ]_vars

\* C12: the session connection is open while a poll exchanges its commands,
\* and once no fetch attempt is in progress (the latest one completed, failed
\* or was cancelled at its deadline) neither the session connection nor the
\* listener is open.
C12_NoSocketLeak ==
    /\ \A c \in Callers : tpc[c] \in {"read", "sleep"} => writerOpen
    /\ (\A c \in Callers : tpc[c] \notin RunningPcs) =>
          (~writerOpen /\ ~listening)

\* C13: the step that accepts an inbound connection makes it the session when
\* no session is bound; when one is bound it closes the new connection and
\* leaves the session's reader and writer alone. The session is never one of
\* the closed connections.
C13_FirstConnectionBinds ==
    [][ connCount' = connCount + 1 =>
          /\ IF reader = None
             THEN /\ reader' = connCount'
                  /\ writerOpen'
                  /\ rejected' = rejected
             ELSE /\ reader' = reader
                  /\ writerOpen' = writerOpen
                  /\ rejected' = rejected \cup {connCount'}
          /\ reader' \notin rejected' ]_vars

\* a second inbound connection was closed while the first was the session
C13_Witness ==
    /\ reader = 1
    /\ 2 \in rejected

\* C14: whatever the interleaving of overlapping calls on a client that starts
\* Disconnected, at most one negotiation happens: at most one connect-back
\* datagram is sent, at most one listener is started, at most one inbound
\* connection becomes a session, and at most one task is inside the
\* negotiation.
C14_OneNegotiation ==
    /\ datagrams <= 1
    /\ started <= 1
    /\ reader \in {None, 1}
    /\ Cardinality({c \in Callers : tpc[c] \in {"listen", "waitconn"}}) <= 1

\* two overlapping calls have both written a command frame over the session
\* that one of them negotiated
C14_Witness ==
    \E c, d \in Callers :
        /\ c # d
        /\ attempt[c].negs = 1
        /\ attempt[d].negs = 0
        /\ attempt[c].cmds # <<>>
        /\ attempt[d].cmds # <<>>
        /\ tpc[c] \in AsciiPcs
        /\ tpc[d] \in AsciiPcs

C16_CommandOrder ==
    /\ [](\A c \in Callers :
             /\ Len(attempt[c].cmds) <= Len(commands)
             /\ attempt[c].cmds =
                   SubSeq(<<"QPIRI", "QPIGS", "QMOD", "QPIWS", "QPIGS2">>,
                          1, Len(attempt[c].cmds)))
    /\ [][ \A c \in Callers :
             Len(attempt'[c].cmds) > Len(attempt[c].cmds) =>
                 attempt[c].delays = Len(attempt[c].cmds) ]_vars

\* C17: a fetch attempt retries nothing: it writes no command twice, enters
\* the negotiation at most once, and once it has failed or was cancelled it
\* takes no further step: it writes no frame and sends no datagram.
C17_NoRetry ==
    /\ [](\A c \in Callers :
             /\ attempt[c].negs <= 1
             /\ \A i, j \in DOMAIN attempt[c].cmds :
                   i # j => attempt[c].cmds[i] # attempt[c].cmds[j])
    /\ [][ \A c \in Callers : tpc[c] \in {"done_err", "cancelled"} =>
             /\ tpc'[c] \in {tpc[c], "none"}
             /\ attempt'[c] \in {attempt[c], NoAttempt}
             /\ Len(sent') <= Len(sent)
             /\ datagrams' = datagrams
             /\ trans_id' = trans_id ]_vars

\* an attempt that negotiated and wrote two frames ended with a read timeout
C17_Witness ==
    \E c \in Callers :
        /\ tpc[c] = "done_err"
        /\ err[c] = "TimeoutError"
        /\ attempt[c].negs = 1
        /\ Len(attempt[c].cmds) = 2

\* C18: client instances for different devices do not disturb each other: no
\* poll of an instance fails while it negotiates, and the session an instance
\* binds is the connection of its own device.
C18_ClientsIndependent ==
    \A i \in Clients :
        /\ (nego[i] = "failed" => readers[i] # None)
        /\ readers[i] \in {None, i}
        /\ closedBy[i] \subseteq {i}

\* C19: the transaction ids of successive frames, whichever callers send them,
\* go up by one, 65535 being followed by 0; they are 16-bit values, the ids of
\* the sends observed (fewer than 65536) are all different, and the client's
\* next id continues the sequence.
C19_TransIdWraps ==
    /\ \A i \in DOMAIN usedIds :
          /\ usedIds[i] \in 0..65535
          /\ i > 1 => usedIds[i] = IF usedIds[i - 1] = 65535 THEN 0
                                   ELSE usedIds[i - 1] + 1
    /\ \A i, j \in DOMAIN usedIds : i # j => usedIds[i] # usedIds[j]
    /\ usedIds # <<>> =>
          trans_id = IF usedIds[Len(usedIds)] = 65535 THEN 0
                     ELSE usedIds[Len(usedIds)] + 1

\* two overlapping calls have sent the frames with ids 65535 and 0
C19_Witness ==
    /\ usedIds = <<65535, 0>>
    /\ \E c, d \in Callers :
          /\ c # d
          /\ attempt[c].cmds # <<>>
          /\ attempt[d].cmds # <<>>

\* C20 as stated: the length field of a built frame is the length of the
\* payload (command bytes, two checksum bytes, terminator).
C20_LengthIsPayloadLength ==
    packet # <<>> =>
        packet[5] * 256 + packet[6] = Len(encode_ascii(command)) + 2 + 1

\* C20, amended: the length field of a built frame is the number of bytes
\* that follow it (unit id, function code and the payload: command bytes, two
\* checksum bytes, terminator), that is the payload length plus 2; it fits the
\* two bytes of the field, and reading the field big-endian from the 6-byte
\* header gives that number.
C20_LengthRoundTrip ==
    /\ packet # <<>> =>
          /\ \A i \in DOMAIN packet : packet[i] \in 0..255
          /\ Len(packet) = 8 + Len(encode_ascii(command)) + 2 + 1
          /\ packet[5] * 256 + packet[6] = Len(encode_ascii(command)) + 2 + 1 + 2
          /\ packet[5] * 256 + packet[6] = Len(packet) - 6
    /\ length # None =>
          /\ length = Len(encode_ascii(command)) + 2 + 1 + 2
          /\ length = Len(packet) - 6

\* the header of the QPIGS2 frame was read: 11 bytes follow the length field
C20_Witness ==
    /\ command = "QPIGS2"
    /\ trans_id_arg = 65535
    /\ Len(packet) = 17
    /\ length = 11

\* C21: the two checksum bytes of a built frame are the high and the low byte
\* of the 16-bit checksum of the command, each passed through the escape, and
\* neither is 0x0A, 0x0D or 0x28; the escape maps exactly these three values
\* to the value plus one and returns every other byte unchanged.
C21_ChecksumEscaped ==
    /\ packet # <<>> =>
          LET crc == compute_crc_xmodem(encode_ascii(command))
              hi  == (crc \div 256) % 256
              lo  == crc % 256
              n   == Len(packet)
          IN  /\ packet[n] = 13
              /\ packet[n - 2] = (IF hi \in {10, 13, 40} THEN hi + 1 ELSE hi)
              /\ packet[n - 1] = (IF lo \in {10, 13, 40} THEN lo + 1 ELSE lo)
              /\ packet[n - 2] \notin {10, 13, 40}
              /\ packet[n - 1] \notin {10, 13, 40}
    /\ adjusted # <<>> =>
          /\ byte \in {10, 13, 40} => adjusted = <<byte + 1>>
          /\ byte \notin {10, 13, 40} => adjusted = <<byte>>
          /\ adjusted[1] \notin {10, 13, 40}

\* the frame of POP02 was built: the low checksum byte 0x0A went out as 0x0B
C21_Witness ==
    /\ command = "POP02"
    /\ compute_crc_xmodem(encode_ascii(command)) = 57866
    /\ Len(packet) = 16
    /\ packet[14] = 226
    /\ packet[15] = 11
    /\ adjusted # <<>>

\* the fewest fields or characters the parser of a command needs
MinFields(cmd) ==
    CASE cmd = "QPIGS"  -> 20
      [] cmd = "QPIGS2" -> 3
      [] cmd = "QPIRI"  -> 27
      [] cmd = "QPIWS"  -> 32
      [] cmd = "QMOD"   -> 1

\* C22: for each of the five commands, parsing a reply with fewer fields than
\* the command's parser needs gives an explicit invalid marker and never an
\* index fault.
C22_ShortReplyMarked ==
    (parsed # <<>> /\ Len(raw) < MinFields(raw_cmd)) =>
        parsed[1].kind = "invalid"

\* the known indices of a warnings reply whose character is '1'
SetIndices(bits) ==
    {idx \in DOMAIN warn_map : idx < Len(bits) /\ bits[idx + 1] = "1"}

\* the k-th smallest element of a set of numbers
KthSmallest(S, k) == CHOOSE x \in S : Cardinality({y \in S : y < x}) = k - 1

\* C23: for a warnings bit string of at least 32 positions the parsed list is
\* the names of the known indices whose bit is '1', in ascending index order;
\* when no known index is set it is ["No warnings"]; it is never empty, and
\* bit 1 alone gives ["Inverter fault"].
C23_WarningsList ==
    (raw_cmd = "QPIWS" /\ parsed # <<>> /\ Len(raw) >= 32) =>
        LET S == SetIndices(raw)
            L == parsed[1].list
        IN  /\ L # <<>>
            /\ S = {} => L = <<"No warnings">>
            /\ S # {} =>
                  /\ Len(L) = Cardinality(S)
                  /\ \A k \in 1..Len(L) : L[k] = warn_map[KthSmallest(S, k)]
            /\ S = {1} => L = <<"Inverter fault">>

\* a reply of 33 characters with bits 32 and 9 set was parsed: the names come
\* out in the order of the indices
C23_Witness ==
    /\ raw_cmd = "QPIWS"
    /\ Len(raw) = 33
    /\ SetIndices(raw) = {9, 32}
    /\ parsed = << [kind |-> "qpiws",
                    list |-> <<"Inverter soft fail",
                               "Battery too low to charge">>] >>

\* C24: the battery power of the snapshot is the battery voltage times the
\* battery current rounded to the nearest integer (voltage and current in
\* tenths, so the product is in hundredths).
C24_PowerRounded ==
    battery # <<>> =>
        LET p100 == battery[1].voltage * battery[1].current
            d    == 100 * battery[1].power - p100
        IN  -50 <= d /\ d <= 50

\* C25: every call of update_data() that acquired the lock returns: whether
\* the fetch succeeds, fails or never completes, the lock is released and the
\* collector is idle again.
C25_LockReleased ==
    (lock /\ \E c \in Callers : pc[c] = "waiting")
        ~> (~lock /\ \A c \in Callers : pc[c] = "idle")

\* the device never connected back: the fetch was cancelled by the timeout
\* while it waited for the session
C25_Witness ==
    \E c \in Callers :
        /\ pc[c] = "waiting"
        /\ tpc[c] = "cancelled"
        /\ attempt[c].negs = 1
        /\ attempt[c].cmds = <<>>
        /\ started = 1
        /\ listening
        /\ reader = None
        /\ connCount = 0

\* C26: the model identifier selects the protocol variant: for a model of the
\* textual client (EASUN_SMW_8K, EASUN_SMW_11K) the set-up constructs the
\* textual client and registers the rating and warnings sensors, for a
\* register model it constructs the register client; every model the
\* configuration accepts gets exactly one of the two.
C26_ModelSelectsVariant ==
    spc = "done" =>
        /\ client \in ClientKinds
        /\ model \in ASCII_MODEL_CONFIGS =>
              /\ client = "ascii"
              /\ \E i \in DOMAIN entities : entities[i] = "InverterInfoSensor"
              /\ \E i \in DOMAIN entities : entities[i] = "InverterWarningsSensor"
        /\ model \in MODEL_CONFIGS \ ASCII_MODEL_CONFIGS => client = "register"

\* C27: the lock is released only by the update_data() call that acquired
\* it, once: the lock is held exactly while one call is between its acquire
\* and its finally clause; a step that releases it is the return of that
\* call, whose task is done or cancelled by then; a skipped call leaves the
\* lock held; and while a fetch is running the lock is held.
C27_ReleasedByHolder ==
    /\ [](/\ lock <=> \E c \in Callers : pc[c] = "waiting"
          /\ Cardinality({c \in Callers : pc[c] = "waiting"}) <= 1
          /\ \A c \in Callers :
                (tpc[c] \in RunningPcs => (lock /\ pc[c] = "waiting")))
    /\ [][ /\ (lock /\ ~lock') =>
                 (\E c \in Callers :
                     /\ pc[c] = "waiting"
                     /\ pc'[c] = "idle"
                     /\ tpc[c] \in {"done_ok", "done_err", "cancelled"}
                     /\ result'[c] # "skipped")
           /\ (\E c \in Callers : pc[c] = "waiting" /\ pc'[c] = "idle") =>
                 (lock /\ ~lock')
           /\ (calls' = calls + 1 /\ lock) =>
                 (lock' /\ \E d \in Callers : /\ result'[d] = "skipped"
                                              /\ pc'[d] = "idle") ]_vars

\* a call was skipped while the only fetch was running; the fetch timed out
\* and its call released the lock
C27_Witness ==
    /\ ~lock
    /\ fetchCount = 1
    /\ calls = 2
    /\ lastEnd = "timeout"
    /\ \E c, d \in Callers :
          result[c] = "skipped" /\ result[d] = "TimeoutError"

\* C28: a fetch cancelled by the timeout has no later effect: a cancelled
\* task takes no further step, so once its call has released the lock it is
\* gone; every change of the snapshot, the failure counter or the last-success
\* time is made by the task of the latest refresh while that task is running
\* and its call holds the lock, and the snapshot it stores is its own; no two
\* tasks exist at a time.
C28_CancelledFetchInert ==
    /\ [](Cardinality({c \in Callers : tpc[c] # "none"}) <= 1)
    /\ [][ /\ \A c \in Callers :
                 (tpc[c] = "cancelled" => tpc'[c] \in {"cancelled", "none"})
           /\ (\/ data' # data
               \/ consecutive_failures' # consecutive_failures
               \/ last_successful_update' # last_successful_update) =>
                 (\E c \in Callers :
                     /\ tpc[c] \in RunningPcs
                     /\ pc[c] = "waiting"
                     /\ lock
                     /\ fid[c] = fetchCount
                     /\ \A k \in DataTypes :
                           get_data(data', k) \in {None, fid[c]}) ]_vars

\* a refresh timed out and the next one has just stored its own snapshot
C28_Witness ==
    \E c \in Callers :
        /\ afterTimeout[c]
        /\ tpc[c] = "done_ok"
        /\ fid[c] = 2
        /\ get_data(data, "battery") = 2

\* C29: the reply _send_command(cmd) returns in a poll is the device's answer
\* to the request for cmd that this poll sent: the k-th reply a poll has read
\* is the answer to the k-th frame it wrote, whatever happened to the polls
\* before it.
C29_ReplyMatchesRequest ==
    \A c \in Callers :
        \A k \in DOMAIN attempt[c].got :
            /\ k \in DOMAIN attempt[c].cmds
            /\ attempt[c].got[k] = [cmd |-> attempt[c].cmds[k],
                                    tid |-> attempt[c].tids[k]]

\* C30: during negotiation the listener is accepting whenever the device can
\* act on the connect-back datagram, so the device's connection is accepted:
\* while a connect-back is due the listener is up, and a task inside the
\* negotiation has a session or a connect-back still due to it.
C30_ListenerAccepts ==
    /\ pendingConnect > 0 => listening
    /\ \A c \in Callers :
          tpc[c] \in {"listen", "waitconn"} =>
              (reader # None \/ pendingConnect > 0)

====
